---- MODULE Spec2Model ----
(***************************************************************************)
(* Model of the State-Machine framework: the StateMachine base class with  *)
(* its process_startup / process_input entry points (state_machine.py),    *)
(* the combinators (combinators.py) and the modal layer (modal_machine.py).*)
(*                                                                         *)
(* A state machine is a record of three functions (startup, input,         *)
(* quiesce).  An optional transition is a record with a `some` flag: the   *)
(* Python value None is the record NoTransition.  The Python value None in *)
(* a `state` field is NoState.  Python decides "has a state" by            *)
(* truthiness, so the state 0 is a present but falsy state.                *)
(***************************************************************************)
EXTENDS Integers, Sequences, FiniteSets, TLC

VARIABLES
    machine,        \* the concrete (wrapped) machine under test: _machine
    st,             \* the state value held by the driver
    pc,             \* position of the driver / of the object's life cycle
    last,           \* the last call made: operation, arguments, result
    _machines,      \* UnionMachine._machines
    _until,         \* StoppingMachine._until: the states it holds for
    _initial_input, \* InitialInputMachine._initial_input
    _initialized,   \* InitialInputMachine._initialized
    fed,            \* times the wrapped machine was fed the initial input
    ncalls,         \* calls made on the InitialInputMachine
    _ignore_input,  \* ignore_input: the inputs the predicate holds for
    attrs,          \* attributes set on the SupressInputMachine instance
    _mode_machines, \* ModalMachine._mode_machines: the ModeMachines provider
    args            \* the transitions handed to _concatenate

coreVars == <<machine, st, pc, last>>

wrapVars == <<_machines, _until, _initial_input, _initialized, fed, ncalls,
              _ignore_input, attrs, _mode_machines, args>>

vars == <<coreVars, wrapVars>>

----------------------------------------------------------------------------
(* Bounds *)

MaxState == 3

NumMachines == 2

MaxCalls == 3

NumModes == 3

----------------------------------------------------------------------------
(* Values *)

NoState == -1

States == 0 .. MaxState

Inputs == 0 .. (MaxState + 2)

\* Python truthiness of an optional state value: None and 0 are falsy.
Truthy(v) == v # NoState /\ v # 0

\* StateTransition(state=s, outputs=o)
StateTransition(s, o) == [some |-> TRUE, state |-> s, outputs |-> o]

\* A call that returns None instead of a StateTransition.
NoTransition == [some |-> FALSE, state |-> NoState, outputs |-> <<>>]

----------------------------------------------------------------------------
(* StateMachine: the private helpers and the public entry points *)

\* A plausible defect: the later state wins whenever it is not None.
_concatenate_present(transition_1, transition_2) ==
    IF transition_1.some /\ transition_2.some
    THEN StateTransition(
             IF transition_2.state # NoState THEN transition_2.state
                                             ELSE transition_1.state,
             transition_1.outputs \o transition_2.outputs)
    ELSE IF transition_1.some THEN transition_1 ELSE transition_2

_concatenate(transition_1, transition_2) ==
    IF transition_1.some /\ transition_2.some
    THEN StateTransition(
             IF Truthy(transition_2.state) THEN transition_2.state
                                           ELSE transition_1.state,
             transition_1.outputs \o transition_2.outputs)
    ELSE IF transition_1.some THEN transition_1 ELSE transition_2

_process_quiesce(m, state) ==
    LET transition == m.quiesce[state] IN
    IF ~transition.some \/ ~Truthy(transition.state)
    THEN transition
    ELSE _concatenate(transition, m.quiesce[transition.state])

process_startup(m, state) ==
    LET transition == m.startup[state] IN
    IF ~transition.some \/ ~Truthy(transition.state)
    THEN _concatenate(transition, _process_quiesce(m, state))
    ELSE _concatenate(transition, _process_quiesce(m, transition.state))

process_input(m, state, input) ==
    LET transition == m.input[<<state, input>>] IN
    IF ~transition.some \/ ~Truthy(transition.state)
    THEN transition
    ELSE _concatenate(transition, _process_quiesce(m, transition.state))

----------------------------------------------------------------------------
(* The concrete machines the framework is exercised with.  Every output    *)
(* value is tagged with the machine's id and with the operation, the state *)
(* and the target that produced it, so that order and origin are visible.  *)

Tag(id, code) == id * 1000 + code

\* startup (P): kind 0 no transition, 1 outputs only, 2 to state 1,
\* 3 to the falsy state 0.
StartupKinds == 0 .. 3

StartupFn(id, k) ==
    [s \in States |->
        CASE k = 0 -> NoTransition
          [] k = 1 -> StateTransition(NoState, <<Tag(id, 300 + s)>>)
          [] k = 2 -> StateTransition(1, <<Tag(id, 400 + s)>>)
          [] OTHER -> StateTransition(0, <<Tag(id, 500 + s)>>)]

\* input (Q): kind 0 reacts to the input value alone (input x <= MaxState
\* moves to state x, MaxState + 1 is not handled, MaxState + 2 only emits);
\* kind 1 handles inputs in odd states only, with an empty transition.
InputKinds == 0 .. 1

InputFn(id, k) ==
    [a \in States \X Inputs |->
        IF k = 0
        THEN (IF a[2] <= MaxState
              THEN StateTransition(a[2], <<Tag(id, 200 + a[2])>>)
              ELSE IF a[2] = MaxState + 1
              THEN NoTransition
              ELSE StateTransition(NoState, <<Tag(id, 299)>>))
        ELSE (IF a[1] % 2 = 0
              THEN NoTransition
              ELSE StateTransition(NoState, <<>>))]

\* quiesce (R), chosen per state: kind 0 no transition, 1 outputs only,
\* 2 to the falsy state 0, 3 to the next state.
QuiesceKinds == {qk \in [States -> 0 .. 3] : qk[MaxState] # 3}

QuiesceFn(id, qk) ==
    [s \in States |->
        CASE qk[s] = 0 -> NoTransition
          [] qk[s] = 1 -> StateTransition(NoState, <<Tag(id, 100 + s)>>)
          [] qk[s] = 2 -> StateTransition(0, <<Tag(id, 10 * s)>>)
          [] OTHER     -> StateTransition(s + 1, <<Tag(id, 10 * s + s + 1)>>)]

Machine(id, sk, ik, qk) ==
    [id |-> id, startup |-> StartupFn(id, sk), input |-> InputFn(id, ik),
     quiesce |-> QuiesceFn(id, qk)]

CoreMachines ==
    {Machine(1, sk, 0, qk) : sk \in StartupKinds, qk \in QuiesceKinds}

----------------------------------------------------------------------------
(* The driver: process_startup once, then process_input per external input *)

NoCall == [op |-> "none", state |-> NoState, input |-> NoState,
           result |-> NoTransition, raised |-> "none"]

Call(op, state, input, result) ==
    [op |-> op, state |-> state, input |-> input, result |-> result,
     raised |-> "none"]

\* A call that raised an exception instead of returning.
Raised(op, state, input, exception) ==
    [op |-> op, state |-> state, input |-> input, result |-> NoTransition,
     raised |-> exception]

\* The variables of the objects a specification does not construct.
NoWrappers ==
    /\ _machines = <<>>
    /\ _until = {}
    /\ _initial_input = NoState
    /\ _initialized = FALSE
    /\ fed = 0
    /\ ncalls = 0
    /\ _ignore_input = {}
    /\ attrs = {}
    /\ _mode_machines = NoState
    /\ args = <<>>

\* The driver keeps its state unless the returned transition carries one.
Stored(state, transition) ==
    IF transition.some /\ transition.state # NoState
    THEN transition.state ELSE state

Init ==
    /\ machine \in CoreMachines
    /\ st \in States
    /\ pc = "start"
    /\ last = NoCall
    /\ NoWrappers

ProcessStartup ==
    /\ pc = "start"
    /\ LET t == process_startup(machine, st) IN
        /\ last' = Call("process_startup", st, NoState, t)
        /\ st' = Stored(st, t)
    /\ pc' = "run"
    /\ UNCHANGED <<machine, wrapVars>>

ProcessInput ==
    /\ pc = "run"
    /\ \E x \in Inputs :
        LET t == process_input(machine, st, x) IN
        /\ last' = Call("process_input", st, x, t)
        /\ st' = Stored(st, t)
    /\ UNCHANGED <<machine, pc, wrapVars>>

Next == ProcessStartup \/ ProcessInput

Spec == Init /\ [][Next]_vars

----------------------------------------------------------------------------
(* Reference semantics of the quiescing loop, as the documentation of      *)
(* startup / quiesce states it: apply quiesce until a call yields no       *)
(* transition or a transition without a new state.                         *)

\* Merging two optional transitions: later state if present, else earlier.
Merge(t1, t2) ==
    IF t1.some /\ t2.some
    THEN StateTransition(IF t2.state # NoState THEN t2.state ELSE t1.state,
                         t1.outputs \o t2.outputs)
    ELSE IF t1.some THEN t1 ELSE t2

HasNewState(t) == t.some /\ t.state # NoState

RECURSIVE QuiesceLoop(_, _, _)
QuiesceLoop(m, state, fuel) ==
    LET t == m.quiesce[state] IN
    IF ~HasNewState(t) \/ fuel = 0
    THEN t
    ELSE Merge(t, QuiesceLoop(m, t.state, fuel - 1))

\* No quiesce step of m yields the falsy state 0: its chains strictly
\* increase, so they are finite and truthiness equals presence.
FiniteChains(m) == \A s \in States : m.quiesce[s].state # 0

Settled(m, state) == ~HasNewState(m.quiesce[state])

RefProcessInput(m, state, input) ==
    LET t == m.input[<<state, input>>] IN
    IF ~HasNewState(t) THEN t
    ELSE Merge(t, QuiesceLoop(m, t.state, MaxState + 1))

RefProcessStartup(m, state) ==
    LET t == m.startup[state] IN
    IF ~HasNewState(t) THEN Merge(t, QuiesceLoop(m, state, MaxState + 1))
    ELSE Merge(t, QuiesceLoop(m, t.state, MaxState + 1))

\* C1: for a machine with finite quiesce chains, process_input returns the
\* input transition as-is when it has no new state, and otherwise the input
\* transition's outputs followed by the outputs of every quiesce step up to
\* and including the terminating one, with the last new state reached.
C1_ProcessInputIsFullCascade ==
    (/\ last.op = "process_input"
     /\ FiniteChains(machine)
     /\ machine.input[<<last.state, last.input>>].state # 0)
    => last.result = RefProcessInput(machine, last.state, last.input)

\* C2: for a machine with finite quiesce chains, process_startup returns the
\* startup transition's outputs followed by all outputs of the quiescing
\* loop run from the startup transition's new state (or from the unchanged
\* state when there is none), with the final state reached.
C2_ProcessStartupIsFullCascade ==
    (/\ last.op = "process_startup"
     /\ FiniteChains(machine)
     /\ machine.startup[last.state].state # 0)
    => last.result = RefProcessStartup(machine, last.state)

\* C3: for a machine with finite quiesce chains, the state the driver holds
\* after every process_startup / process_input call is settled: quiesce on
\* it yields no transition or a transition with no new state.
C3_DriverStateSettled ==
    (/\ pc = "run"
     /\ FiniteChains(machine)
     /\ last.result.state # 0)
    => Settled(machine, st)

----------------------------------------------------------------------------
(* The machines the combinators wrap: a smaller family, every startup and  *)
(* input kind with a few quiesce functions.                                *)

\* quiesce nowhere; emit only; fall to state 0; the chain 0 -> 1 -> ... ->
\* MaxState ending without a transition, and ending with outputs only.
SmallQuiesceKinds ==
    {[s \in States |-> 0], [s \in States |-> 1], [s \in States |-> 2],
     [s \in States |-> IF s < MaxState THEN 3 ELSE 0],
     [s \in States |-> IF s < MaxState THEN 3 ELSE 1]}

SmallMachines(id) ==
    {Machine(id, sk, ik, qk) :
        sk \in StartupKinds, ik \in InputKinds, qk \in SmallQuiesceKinds}

----------------------------------------------------------------------------
(* UnionMachine *)

\* A plausible defect: the last machine that reacts wins.
UnionLast(transitions) ==
    IF \E i \in DOMAIN transitions : transitions[i].some
    THEN transitions[CHOOSE i \in DOMAIN transitions :
                        /\ transitions[i].some
                        /\ \A j \in DOMAIN transitions :
                               j > i => ~transitions[j].some]
    ELSE NoTransition

\* for machine in self._machines: ... if transition: return transition
\* (a StateTransition object is always truthy); return None after the loop.
UnionFirst(transitions) ==
    IF \E i \in DOMAIN transitions : transitions[i].some
    THEN transitions[CHOOSE i \in DOMAIN transitions :
                        /\ transitions[i].some
                        /\ \A j \in DOMAIN transitions :
                               j < i => ~transitions[j].some]
    ELSE NoTransition

Union_startup(ms, state) ==
    UnionFirst([i \in DOMAIN ms |-> ms[i].startup[state]])

Union_input(ms, state, input) ==
    UnionFirst([i \in DOMAIN ms |-> ms[i].input[<<state, input>>]])

Union_quiesce(ms, state) ==
    UnionFirst([i \in DOMAIN ms |-> ms[i].quiesce[state]])

\* The machines a UnionMachine is built from: machine i has id i.
UnionMembers(id) ==
    {Machine(id, sk, ik, qk) :
        sk \in 0 .. 2, ik \in InputKinds,
        qk \in {[s \in States |-> 0],
                [s \in States |-> IF s < MaxState THEN 3 ELSE 1]}}

RECURSIVE MachineSeqs(_)
MachineSeqs(n) ==
    IF n = 0 THEN {<<>>}
    ELSE {Append(ms, m) : ms \in MachineSeqs(n - 1), m \in UnionMembers(n)}

InitUnion ==
    /\ _machines \in MachineSeqs(NumMachines)
    /\ machine = NoState
    /\ st = NoState
    /\ pc = "union"
    /\ last = NoCall
    /\ _until = {}
    /\ _initial_input = NoState
    /\ _initialized = FALSE
    /\ fed = 0
    /\ ncalls = 0
    /\ _ignore_input = {}
    /\ attrs = {}
    /\ _mode_machines = NoState
    /\ args = <<>>

UnionStartup ==
    /\ pc = "union"
    /\ \E s \in States :
        last' = Call("startup", s, NoState, Union_startup(_machines, s))
    /\ UNCHANGED <<machine, st, pc, wrapVars>>

UnionInput ==
    /\ pc = "union"
    /\ \E s \in States, x \in Inputs :
        last' = Call("input", s, x, Union_input(_machines, s, x))
    /\ UNCHANGED <<machine, st, pc, wrapVars>>

UnionQuiesce ==
    /\ pc = "union"
    /\ \E s \in States :
        last' = Call("quiesce", s, NoState, Union_quiesce(_machines, s))
    /\ UNCHANGED <<machine, st, pc, wrapVars>>

NextUnion == UnionStartup \/ UnionInput \/ UnionQuiesce

SpecUnion == InitUnion /\ [][NextUnion]_vars

\* What wrapped machine i returns for the operation and arguments of `last`.
WrappedResult(m, c) ==
    CASE c.op = "startup" -> m.startup[c.state]
      [] c.op = "input"   -> m.input[<<c.state, c.input>>]
      [] c.op = "quiesce" -> m.quiesce[c.state]
      [] OTHER            -> NoTransition

\* C4: each operation of a UnionMachine returns exactly the transition of
\* the first wrapped machine, in sequence order, that returns a transition
\* for the same arguments, and returns none iff every wrapped machine does.
C4_UnionFirstMatch ==
    last.op \in {"startup", "input", "quiesce"} =>
        /\ ~last.result.some <=>
               \A i \in DOMAIN _machines :
                   ~WrappedResult(_machines[i], last).some
        /\ \A i \in DOMAIN _machines :
               (/\ WrappedResult(_machines[i], last).some
                /\ \A j \in 1 .. (i - 1) :
                       ~WrappedResult(_machines[j], last).some)
               => last.result = WrappedResult(_machines[i], last)

\* C4 witness: the first machine returns a transition without state and
\* without outputs, the second one a state and outputs; the first one wins.
C4_Witness ==
    /\ last.op = "input"
    /\ WrappedResult(_machines[1], last) = StateTransition(NoState, <<>>)
    /\ WrappedResult(_machines[2], last).state # NoState
    /\ last.result = StateTransition(NoState, <<>>)

----------------------------------------------------------------------------
(* StoppingMachine *)

Stopping_startup(m, until, state) ==
    IF state \in until THEN NoTransition ELSE m.startup[state]

\* A plausible defect: inputs are delegated without looking at the state.
Stopping_input_unguarded(m, until, state, input) ==
    m.input[<<state, input>>]

Stopping_input(m, until, state, input) ==
    IF state \in until THEN NoTransition ELSE m.input[<<state, input>>]

Stopping_quiesce(m, until, state) ==
    IF state \in until THEN NoTransition ELSE m.quiesce[state]

\* The StoppingMachine as a machine, so that the inherited process_startup
\* and process_input run on its three operations.
StoppingMachine(m, until) ==
    [id |-> m.id,
     startup |-> [s \in States |-> Stopping_startup(m, until, s)],
     input |-> [a \in States \X Inputs |->
                   Stopping_input(m, until, a[1], a[2])],
     quiesce |-> [s \in States |-> Stopping_quiesce(m, until, s)]]

InitStopping ==
    /\ machine \in SmallMachines(1)
    /\ _until \in SUBSET States
    /\ st \in States
    /\ pc = "start"
    /\ last = NoCall
    /\ _machines = <<>>
    /\ _initial_input = NoState
    /\ _initialized = FALSE
    /\ fed = 0
    /\ ncalls = 0
    /\ _ignore_input = {}
    /\ attrs = {}
    /\ _mode_machines = NoState
    /\ args = <<>>

StoppingProcessStartup ==
    /\ pc = "start"
    /\ LET t == process_startup(StoppingMachine(machine, _until), st) IN
        /\ last' = Call("process_startup", st, NoState, t)
        /\ st' = Stored(st, t)
    /\ pc' = "run"
    /\ UNCHANGED <<machine, wrapVars>>

StoppingProcessInput ==
    /\ pc = "run"
    /\ \E x \in Inputs :
        LET t == process_input(StoppingMachine(machine, _until), st, x) IN
        /\ last' = Call("process_input", st, x, t)
        /\ st' = Stored(st, t)
    /\ UNCHANGED <<machine, pc, wrapVars>>

\* Direct calls of the three operations on the stored state.
StoppingStartup ==
    /\ pc = "run"
    /\ last' = Call("startup", st, NoState,
                    Stopping_startup(machine, _until, st))
    /\ UNCHANGED <<machine, st, pc, wrapVars>>

StoppingInput ==
    /\ pc = "run"
    /\ \E x \in Inputs :
        last' = Call("input", st, x, Stopping_input(machine, _until, st, x))
    /\ UNCHANGED <<machine, st, pc, wrapVars>>

StoppingQuiesce ==
    /\ pc = "run"
    /\ last' = Call("quiesce", st, NoState,
                    Stopping_quiesce(machine, _until, st))
    /\ UNCHANGED <<machine, st, pc, wrapVars>>

NextStopping ==
    \/ StoppingProcessStartup
    \/ StoppingProcessInput
    \/ StoppingStartup
    \/ StoppingInput
    \/ StoppingQuiesce

SpecStopping == InitStopping /\ [][NextStopping]_vars

\* C5: once the driver's stored state satisfies the stop predicate, every
\* later call (process_input, startup, input, quiesce, any input) returns no
\* transition and the stored state never changes again; while the predicate
\* is false for the state of a call, startup, input and quiesce return
\* exactly what the wrapped machine returns.
C5_StoppingFreeze ==
    /\ [][(st \in _until) =>
             (st' = st /\ last'.result = NoTransition)]_vars
    /\ [](last.op \in {"startup", "input", "quiesce"} =>
             IF last.state \in _until
             THEN last.result = NoTransition
             ELSE last.result = WrappedResult(machine, last))

\* C5 witness: the driver holds a stop state, and an input the wrapped
\* machine would change state on from there returned no transition.
C5_Witness ==
    /\ pc = "run"
    /\ st \in _until
    /\ last.op \in {"process_input", "input"}
    /\ last.state = st
    /\ machine.input[<<st, last.input>>].state \notin {NoState, st}
    /\ last.result = NoTransition

----------------------------------------------------------------------------
(* InitialInputMachine *)

\* A plausible defect: the flag is never set.
_initialize_unflagged(m, initial_input, initialized, state) ==
    IF ~initialized
    THEN [initialized |-> initialized, fed |-> 1,
          transition |-> process_input(m, state, initial_input)]
    ELSE [initialized |-> initialized, fed |-> 0,
          transition |-> NoTransition]

\* Returns the transition, the new value of self._initialized and the
\* number of times the wrapped machine was fed the initial input.
_initialize(m, initial_input, initialized, state) ==
    IF ~initialized
    THEN [initialized |-> TRUE, fed |-> 1,
          transition |-> process_input(m, state, initial_input)]
    ELSE [initialized |-> initialized, fed |-> 0,
          transition |-> NoTransition]

InitInitialInput ==
    /\ machine \in SmallMachines(1)
    /\ _initial_input \in Inputs
    /\ _initialized = FALSE
    /\ fed = 0
    /\ ncalls = 0
    /\ st = NoState
    /\ pc = "initial"
    /\ last = NoCall
    /\ _machines = <<>>
    /\ _until = {}
    /\ _ignore_input = {}
    /\ attrs = {}
    /\ _mode_machines = NoState
    /\ args = <<>>

InitialInputStartup ==
    /\ pc = "initial"
    /\ ncalls < MaxCalls
    /\ \E s \in States :
        LET i == _initialize(machine, _initial_input, _initialized, s) IN
        /\ last' = Call("startup", s, NoState,
                        _concatenate(i.transition, machine.startup[s]))
        /\ _initialized' = i.initialized
        /\ fed' = fed + i.fed
    /\ ncalls' = ncalls + 1
    /\ UNCHANGED <<machine, st, pc, _machines, _until, _initial_input,
                   _ignore_input, attrs, _mode_machines, args>>

InitialInputInput ==
    /\ pc = "initial"
    /\ ncalls < MaxCalls
    /\ \E s \in States, x \in Inputs :
        LET i == _initialize(machine, _initial_input, _initialized, s) IN
        /\ last' = Call("input", s, x,
                        _concatenate(i.transition, machine.input[<<s, x>>]))
        /\ _initialized' = i.initialized
        /\ fed' = fed + i.fed
    /\ ncalls' = ncalls + 1
    /\ UNCHANGED <<machine, st, pc, _machines, _until, _initial_input,
                   _ignore_input, attrs, _mode_machines, args>>

InitialInputQuiesce ==
    /\ pc = "initial"
    /\ ncalls < MaxCalls
    /\ \E s \in States :
        LET i == _initialize(machine, _initial_input, _initialized, s) IN
        /\ last' = Call("quiesce", s, NoState,
                        _concatenate(i.transition, machine.quiesce[s]))
        /\ _initialized' = i.initialized
        /\ fed' = fed + i.fed
    /\ ncalls' = ncalls + 1
    /\ UNCHANGED <<machine, st, pc, _machines, _until, _initial_input,
                   _ignore_input, attrs, _mode_machines, args>>

NextInitialInput ==
    InitialInputStartup \/ InitialInputInput \/ InitialInputQuiesce

SpecInitialInput == InitInitialInput /\ [][NextInitialInput]_vars

\* C6: over any sequence of calls to startup, input and quiesce of one
\* InitialInputMachine, the wrapped machine is fed the initial input exactly
\* once, during the first call; the flag goes from false to true on that
\* call and never back; every later call returns exactly the wrapped
\* machine's own result.
C6_InitialInputOnce ==
    /\ [](fed = IF ncalls = 0 THEN 0 ELSE 1)
    /\ [](_initialized <=> ncalls > 0)
    /\ [][_initialized => _initialized']_vars
    /\ [](ncalls > 1 => last.result = WrappedResult(machine, last))

\* C6 witness: a second or later call, after a first call whose initial
\* input produced a transition, returned the wrapped machine's own result.
C6_Witness ==
    /\ ncalls > 1
    /\ fed = 1
    /\ _initialized
    /\ process_input(machine, last.state, _initial_input).some
    /\ last.result.some
    /\ last.result = WrappedResult(machine, last)

----------------------------------------------------------------------------
(* SupressInputMachine.  The class defines a method named __int__ where an *)
(* initializer was meant, so it inherits object's constructor: constructing*)
(* it with arguments raises TypeError, and an instance constructed without *)
(* arguments has neither _machine nor _ignore_input until __int__ is       *)
(* called on it by name.                                                   *)

SupressAttrs == {"_machine", "_ignore_input"}

\* startup / quiesce read self._machine, input reads self._ignore_input
\* first; a missing attribute raises AttributeError.
Supress_startup(a, m, state) ==
    IF "_machine" \in a
    THEN Call("startup", state, NoState, m.startup[state])
    ELSE Raised("startup", state, NoState, "AttributeError")

Supress_input(a, m, ignore_input, state, input) ==
    IF "_ignore_input" \notin a
    THEN Raised("input", state, input, "AttributeError")
    ELSE IF input \in ignore_input
    THEN Call("input", state, input, NoTransition)
    ELSE IF "_machine" \in a
    THEN Call("input", state, input, m.input[<<state, input>>])
    ELSE Raised("input", state, input, "AttributeError")

Supress_quiesce(a, m, state) ==
    IF "_machine" \in a
    THEN Call("quiesce", state, NoState, m.quiesce[state])
    ELSE Raised("quiesce", state, NoState, "AttributeError")

IgnorePredicates == {ig \in SUBSET Inputs : Cardinality(ig) <= 1} \cup {Inputs}

InitSupress ==
    /\ machine \in SmallMachines(1)
    /\ _ignore_input \in IgnorePredicates
    /\ attrs = {}
    /\ _mode_machines = NoState
    /\ args = <<>>
    /\ st = NoState
    /\ pc = "class"
    /\ last = NoCall
    /\ _machines = <<>>
    /\ _until = {}
    /\ _initial_input = NoState
    /\ _initialized = FALSE
    /\ fed = 0
    /\ ncalls = 0

\* SupressInputMachine(machine, ignore_input): no __init__ is defined, so
\* object() rejects the arguments and no instance results.
SupressConstruct ==
    /\ pc = "class"
    /\ last' = Raised("SupressInputMachine", NoState, NoState, "TypeError")
    /\ pc' = "failed"
    /\ UNCHANGED <<machine, st, wrapVars>>

\* SupressInputMachine(): an instance without attributes.
SupressConstructBare ==
    /\ pc = "class"
    /\ last' = Call("SupressInputMachine()", NoState, NoState, NoTransition)
    /\ pc' = "instance"
    /\ attrs' = {}
    /\ UNCHANGED <<machine, st, _machines, _until, _initial_input,
                   _initialized, fed, ncalls, _ignore_input, _mode_machines, args>>

\* instance.__int__(machine, ignore_input), called by name.
Supress__int__ ==
    /\ pc = "instance"
    /\ last' = Call("__int__", NoState, NoState, NoTransition)
    /\ attrs' = SupressAttrs
    /\ UNCHANGED <<machine, st, pc, _machines, _until, _initial_input,
                   _initialized, fed, ncalls, _ignore_input, _mode_machines, args>>

SupressStartup ==
    /\ pc = "instance"
    /\ \E s \in States : last' = Supress_startup(attrs, machine, s)
    /\ UNCHANGED <<machine, st, pc, wrapVars>>

SupressInput ==
    /\ pc = "instance"
    /\ \E s \in States, x \in Inputs :
        last' = Supress_input(attrs, machine, _ignore_input, s, x)
    /\ UNCHANGED <<machine, st, pc, wrapVars>>

SupressQuiesce ==
    /\ pc = "instance"
    /\ \E s \in States : last' = Supress_quiesce(attrs, machine, s)
    /\ UNCHANGED <<machine, st, pc, wrapVars>>

NextSupress ==
    \/ SupressConstruct
    \/ SupressConstructBare
    \/ Supress__int__
    \/ SupressStartup
    \/ SupressInput
    \/ SupressQuiesce

SpecSupress == InitSupress /\ [][NextSupress]_vars

\* C7: a SupressInputMachine constructed from a machine and an input
\* predicate exists, and returns no transition from input(state, x) for
\* every x satisfying the predicate, the wrapped machine's input(state, x)
\* for every other x, and the wrapped machine's result from startup and
\* quiesce.
C7_SupressConstructedFilters ==
    /\ last.op = "SupressInputMachine" =>
           /\ last.raised = "none"
           /\ attrs = SupressAttrs
    /\ (pc = "instance" /\ last.op \in {"startup", "input", "quiesce"}) =>
           /\ last.raised = "none"
           /\ last.result =
                  IF last.op = "input" /\ last.input \in _ignore_input
                  THEN NoTransition
                  ELSE WrappedResult(machine, last)

----------------------------------------------------------------------------
(* The modal layer: data types.  The class statements of ModeInput (an     *)
(* attr.s keyword spelled fronzen) and of ModeOutput (a type variable not  *)
(* listed in its Generic base) raise TypeError when modal_machine.py is    *)
(* loaded; the model takes both classes as the records their fields        *)
(* declare, and follows the methods of ModalMachine as written.            *)

NoMode == -1

Modes == 1 .. NumModes

\* A value in the `state` slot of a modal transition: a ModalState, a bare
\* underlying state (which has no mode attributes), or None.
ModalState(s, c, t) ==
    [kind |-> "ModalState", state |-> s, current_mode |-> c,
     target_mode |-> t]

BareState(s) ==
    [kind |-> "bare", state |-> s, current_mode |-> NoMode,
     target_mode |-> NoMode]

NoModalState ==
    [kind |-> "None", state |-> NoState, current_mode |-> NoMode,
     target_mode |-> NoMode]

ModalStates == {ModalState(s, c, t) : s \in States, c \in Modes, t \in Modes}

\* Python truthiness of such a value: an attrs object is truthy, a bare
\* state is truthy by its value, None is falsy.
ModalTruthy(v) ==
    CASE v.kind = "ModalState" -> TRUE
      [] v.kind = "bare"       -> Truthy(v.state)
      [] OTHER                 -> FALSE

Input(x) == [tag |-> "Input", input |-> x, target_mode |-> NoMode]

ModeInput(m) == [tag |-> "ModeInput", input |-> NoState, target_mode |-> m]

\* A ModalInput that is neither an Input nor a ModeInput.
OtherInput == [tag |-> "ModalInput", input |-> NoState, target_mode |-> NoMode]

ModalInputs ==
    {Input(x) : x \in Inputs} \cup {ModeInput(m) : m \in Modes}
        \cup {OtherInput}

Output(o) ==
    [tag |-> "Output", output |-> o, current_mode |-> NoMode,
     target_mode |-> NoMode]

ModeOutput(c, t) ==
    [tag |-> "ModeOutput", output |-> NoState, current_mode |-> c,
     target_mode |-> t]

TransitionAllowed(next_target_mode) ==
    [allowed |-> TRUE, next_target_mode |-> next_target_mode]

NotAllowed == [allowed |-> FALSE, next_target_mode |-> NoMode]

\* A transition over modal states; `raised` names the exception when the
\* call raised instead of returning.
ModalTransition(s, o) ==
    [some |-> TRUE, state |-> s, outputs |-> o, raised |-> "none"]

NoModalTransition ==
    [some |-> FALSE, state |-> NoModalState, outputs |-> <<>>,
     raised |-> "none"]

ModalRaise(exception) ==
    [some |-> FALSE, state |-> NoModalState, outputs |-> <<>>,
     raised |-> exception]

----------------------------------------------------------------------------
(* ModeMachines providers.  A provider registers a machine for a set of    *)
(* (current_mode, target_mode) pairs; the machine of a pair is tagged with *)
(* the current mode.  It denies a mode transition in the underlying states *)
(* of `deny`, and otherwise allows it with a redirection of kind           *)
(* `redirect`: 0 none, 1 on to the next mode, 2 to the target itself,      *)
(* 3 back to the mode being left.                                          *)

AllPairs == Modes \X Modes

AdjacentPairs == {pr \in AllPairs : pr[1] - pr[2] \in {-1, 0, 1}}

StablePairs == {pr \in AllPairs : pr[1] = pr[2]}

Providers ==
    {[registered |-> r, deny |-> d, redirect |-> k, sk |-> u[1],
      qk |-> u[2]] :
        r \in {AllPairs, AdjacentPairs, StablePairs},
        d \in {{}, {s \in States : s % 2 = 1}, States},
        k \in 0 .. 3,
        u \in {<<0, [s \in States |-> 1]>>,
               <<2, [s \in States |-> IF s < MaxState THEN 3 ELSE 1]>>}}

\* mode_machine(current_mode, target_mode) is not None
HasModeMachine(p, current_mode, target_mode) ==
    <<current_mode, target_mode>> \in p.registered

\* mode_machine(current_mode, target_mode), when it is not None
mode_machine(p, current_mode, target_mode) ==
    Machine(current_mode, p.sk, 0, p.qk)

can_transition_to_target_mode(p, state) ==
    IF state.state \in p.deny
    THEN NotAllowed
    ELSE TransitionAllowed(
             CASE p.redirect = 0 -> NoMode
               [] p.redirect = 1 ->
                      IF state.target_mode < NumModes
                      THEN state.target_mode + 1 ELSE NoMode
               [] p.redirect = 2 -> state.target_mode
               [] OTHER -> state.current_mode)

----------------------------------------------------------------------------
(* ModalState methods *)

\* Returns NoModalState for None.
transition_to_target_mode(self, next_target_mode) ==
    LET current_mode == self.target_mode
        target_mode == IF Truthy(next_target_mode) THEN next_target_mode
                                                   ELSE self.target_mode
    IN  IF self.current_mode = current_mode /\ self.target_mode = target_mode
        THEN NoModalState
        ELSE ModalState(self.state, current_mode, target_mode)

with_target_mode(self, target_mode) ==
    IF self.target_mode = target_mode
    THEN NoModalState
    ELSE ModalState(self.state, self.current_mode, target_mode)

----------------------------------------------------------------------------
(* ModalMachine.  Every method reads state.current_mode first, which       *)
(* raises AttributeError on a value that is not a ModalState.              *)

_is_invalid_mode_transition(p, current_mode, target_mode) ==
    HasModeMachine(p, current_mode, target_mode)

\* A plausible defect: the step is taken although the provider denies it.
_transition_to_target_mode_undenied(p, state) ==
    IF state.kind # "ModalState"
    THEN ModalRaise("AttributeError")
    ELSE IF state.current_mode = state.target_mode
    THEN NoModalTransition
    ELSE LET transition_allowed == can_transition_to_target_mode(p, state)
             next_state ==
                 transition_to_target_mode(
                     state, transition_allowed.next_target_mode)
         IN  IF next_state.kind = "None"
             THEN NoModalTransition
             ELSE ModalTransition(
                      next_state,
                      <<ModeOutput(next_state.current_mode,
                                   next_state.target_mode)>>)

_transition_to_target_mode(p, state) ==
    IF state.kind # "ModalState"
    THEN ModalRaise("AttributeError")
    ELSE IF state.current_mode = state.target_mode
    THEN NoModalTransition
    ELSE LET transition_allowed == can_transition_to_target_mode(p, state) IN
         IF ~transition_allowed.allowed
         THEN NoModalTransition
         ELSE LET next_state ==
                      transition_to_target_mode(
                          state, transition_allowed.next_target_mode)
              IN  IF next_state.kind = "None"
                  THEN NoModalTransition
                  ELSE ModalTransition(
                           next_state,
                           <<ModeOutput(next_state.current_mode,
                                        next_state.target_mode)>>)

\* `transition` is a transition of the underlying machine.
_modal(state, transition) ==
    IF ~transition.some
    THEN NoModalTransition
    ELSE LET outputs == [i \in 1 .. Len(transition.outputs) |->
                            Output(transition.outputs[i])]
         IN  IF transition.state = NoState
             THEN ModalTransition(NoModalState, outputs)
             ELSE ModalTransition(
                      ModalState(state.state, state.current_mode,
                                 state.target_mode),
                      outputs)

Modal_startup(p, state) ==
    LET transition == _transition_to_target_mode(p, state) IN
    IF transition.raised # "none"
    THEN transition
    ELSE IF ~transition.some
    THEN NoModalTransition
    ELSE IF ~HasModeMachine(p, state.current_mode, state.target_mode)
    THEN NoModalTransition
    ELSE _modal(state,
                mode_machine(p, state.current_mode, state.target_mode)
                    .startup[state.state])

\* A plausible defect: a ModeInput sets the target without any check.
Modal_input_unchecked(p, state, input) ==
    CASE input.tag = "ModeInput" ->
            IF state.kind # "ModalState"
            THEN ModalRaise("AttributeError")
            ELSE ModalTransition(
                     BareState(state.state),
                     <<ModeOutput(state.current_mode, input.target_mode)>>)
      [] input.tag = "Input" ->
            IF state.kind # "ModalState"
            THEN ModalRaise("AttributeError")
            ELSE IF ~HasModeMachine(p, state.current_mode, state.target_mode)
            THEN NoModalTransition
            ELSE _modal(state,
                        mode_machine(p, state.current_mode,
                                     state.target_mode)
                            .input[<<state.state, input.input>>])
      [] OTHER -> ModalRaise("TypeError")

Modal_input(p, state, input) ==
    CASE input.tag = "ModeInput" ->
            IF state.kind # "ModalState"
            THEN ModalRaise("AttributeError")
            ELSE IF _is_invalid_mode_transition(
                        p, state.current_mode, input.target_mode)
            THEN NoModalTransition
            ELSE LET next_state ==
                         with_target_mode(state, input.target_mode)
                 IN  IF next_state.kind = "None"
                     THEN NoModalTransition
                     ELSE ModalTransition(
                              BareState(state.state),
                              <<ModeOutput(next_state.current_mode,
                                           next_state.target_mode)>>)
      [] input.tag = "Input" ->
            IF state.kind # "ModalState"
            THEN ModalRaise("AttributeError")
            ELSE IF ~HasModeMachine(p, state.current_mode, state.target_mode)
            THEN NoModalTransition
            ELSE _modal(state,
                        mode_machine(p, state.current_mode,
                                     state.target_mode)
                            .input[<<state.state, input.input>>])
      [] OTHER -> ModalRaise("TypeError")

Modal_quiesce(p, state) ==
    LET transition == _transition_to_target_mode(p, state) IN
    IF transition.raised # "none"
    THEN transition
    ELSE IF ~transition.some
    THEN NoModalTransition
    ELSE IF ~HasModeMachine(p, state.current_mode, state.target_mode)
    THEN NoModalTransition
    ELSE _modal(state,
                mode_machine(p, state.current_mode, state.target_mode)
                    .quiesce[state.state])

\* The entry points ModalMachine inherits from StateMachine, over modal
\* transitions; an exception raised by a step leaves the call at once.
Modal_concatenate(transition_1, transition_2) ==
    IF transition_1.some /\ transition_2.some
    THEN ModalTransition(
             IF ModalTruthy(transition_2.state) THEN transition_2.state
                                                ELSE transition_1.state,
             transition_1.outputs \o transition_2.outputs)
    ELSE IF transition_1.some THEN transition_1 ELSE transition_2

Modal_process_quiesce(p, state) ==
    LET transition == Modal_quiesce(p, state) IN
    IF transition.raised # "none"
    THEN transition
    ELSE IF ~transition.some \/ ~ModalTruthy(transition.state)
    THEN transition
    ELSE LET second == Modal_quiesce(p, transition.state) IN
         IF second.raised # "none" THEN second
         ELSE Modal_concatenate(transition, second)

Modal_process_startup(p, state) ==
    LET transition == Modal_startup(p, state) IN
    IF transition.raised # "none"
    THEN transition
    ELSE LET from == IF ~transition.some \/ ~ModalTruthy(transition.state)
                     THEN state ELSE transition.state
             rest == Modal_process_quiesce(p, from)
         IN  IF rest.raised # "none" THEN rest
             ELSE Modal_concatenate(transition, rest)

Modal_process_input(p, state, input) ==
    LET transition == Modal_input(p, state, input) IN
    IF transition.raised # "none"
    THEN transition
    ELSE IF ~transition.some \/ ~ModalTruthy(transition.state)
    THEN transition
    ELSE LET rest == Modal_process_quiesce(p, transition.state) IN
         IF rest.raised # "none" THEN rest
         ELSE Modal_concatenate(transition, rest)

----------------------------------------------------------------------------
(* The driver of a ModalMachine, and direct calls of its three operations  *)
(* on the state the driver holds.                                          *)

ModalCall(op, state, input, result) ==
    [op |-> op, state |-> state, input |-> input, result |-> result,
     raised |-> result.raised]

ModalStored(state, transition) ==
    IF transition.some /\ transition.state.kind # "None"
    THEN transition.state ELSE state

InitModal ==
    /\ _mode_machines \in Providers
    /\ args = <<>>
    /\ st \in ModalStates
    /\ pc = "start"
    /\ last = NoCall
    /\ machine = NoState
    /\ _machines = <<>>
    /\ _until = {}
    /\ _initial_input = NoState
    /\ _initialized = FALSE
    /\ fed = 0
    /\ ncalls = 0
    /\ _ignore_input = {}
    /\ attrs = {}

ModalProcessStartup ==
    /\ pc = "start"
    /\ LET t == Modal_process_startup(_mode_machines, st) IN
        /\ last' = ModalCall("process_startup", st, OtherInput, t)
        /\ st' = ModalStored(st, t)
    /\ pc' = "run"
    /\ UNCHANGED <<machine, wrapVars>>

ModalProcessInput ==
    /\ pc = "run"
    /\ \E i \in ModalInputs :
        LET t == Modal_process_input(_mode_machines, st, i) IN
        /\ last' = ModalCall("process_input", st, i, t)
        /\ st' = ModalStored(st, t)
    /\ UNCHANGED <<machine, pc, wrapVars>>

ModalStartup ==
    /\ pc = "run"
    /\ last' = ModalCall("startup", st, OtherInput,
                         Modal_startup(_mode_machines, st))
    /\ UNCHANGED <<machine, st, pc, wrapVars>>

ModalInput ==
    /\ pc = "run"
    /\ \E i \in ModalInputs :
        last' = ModalCall("input", st, i, Modal_input(_mode_machines, st, i))
    /\ UNCHANGED <<machine, st, pc, wrapVars>>

ModalQuiesce ==
    /\ pc = "run"
    /\ last' = ModalCall("quiesce", st, OtherInput,
                         Modal_quiesce(_mode_machines, st))
    /\ UNCHANGED <<machine, st, pc, wrapVars>>

NextModal ==
    \/ ModalProcessStartup
    \/ ModalProcessInput
    \/ ModalStartup
    \/ ModalInput
    \/ ModalQuiesce

SpecModal == InitModal /\ [][NextModal]_vars

\* The ModeOutput entries of a sequence of modal outputs, in order.
ModeOutputsOf(outputs) == SelectSeq(outputs, LAMBDA o : o.tag = "ModeOutput")

\* C8: input with a ModeInput(m), where a mode machine is registered for
\* (current_mode, m) and m differs from target_mode, returns a transition
\* whose state is the ModalState with target_mode = m and current_mode and
\* underlying state unchanged, and whose outputs are exactly one
\* ModeOutput(current_mode, m).
C8_ModeRequestSetsTarget ==
    (/\ last.op = "input"
     /\ last.input.tag = "ModeInput"
     /\ last.state.kind = "ModalState"
     /\ HasModeMachine(_mode_machines, last.state.current_mode,
                       last.input.target_mode)
     /\ last.input.target_mode # last.state.target_mode)
    => last.result =
           ModalTransition(
               ModalState(last.state.state, last.state.current_mode,
                          last.input.target_mode),
               <<ModeOutput(last.state.current_mode,
                            last.input.target_mode)>>)

\* C9: startup or quiesce on a state with current_mode # target_mode whose
\* transition the provider allows returns a state with current_mode equal
\* to the previous target_mode and target_mode equal to the permission's
\* next_target_mode if given, else the previous target_mode, and outputs
\* with exactly one ModeOutput, carrying that new pair.  Stated for the
\* providers that register a machine for every pair of modes.
C9_ModeStepOneHop ==
    (/\ last.op \in {"startup", "quiesce"}
     /\ last.state.kind = "ModalState"
     /\ last.state.current_mode # last.state.target_mode
     /\ can_transition_to_target_mode(_mode_machines, last.state).allowed
     /\ _mode_machines.registered = AllPairs)
    => LET next == can_transition_to_target_mode(
                       _mode_machines, last.state).next_target_mode
           target == IF next # NoMode THEN next ELSE last.state.target_mode
       IN  /\ last.result.some
           /\ last.result.state.kind = "ModalState"
           /\ last.result.state.current_mode = last.state.target_mode
           /\ last.result.state.target_mode = target
           /\ ModeOutputsOf(last.result.outputs) =
                  <<ModeOutput(last.state.target_mode, target)>>

\* C10: input with an Input(x) returns no transition when no mode machine
\* is registered for (current_mode, target_mode) or that machine's input
\* yields none; otherwise its outputs are that machine's outputs, each
\* wrapped as Output, in order, and when the machine yields a new
\* underlying state the returned state is the ModalState holding it, with
\* current_mode and target_mode unchanged.
C10_PlainInputDelegates ==
    (/\ last.op = "input"
     /\ last.input.tag = "Input"
     /\ last.state.kind = "ModalState")
    => IF ~HasModeMachine(_mode_machines, last.state.current_mode,
                          last.state.target_mode)
       THEN last.result = NoModalTransition
       ELSE LET t == mode_machine(_mode_machines, last.state.current_mode,
                                  last.state.target_mode)
                         .input[<<last.state.state, last.input.input>>]
            IN  IF ~t.some
                THEN last.result = NoModalTransition
                ELSE /\ last.result.some
                     /\ last.result.outputs =
                            [i \in 1 .. Len(t.outputs) |->
                                Output(t.outputs[i])]
                     /\ t.state # NoState =>
                            last.result.state =
                                ModalState(t.state, last.state.current_mode,
                                           last.state.target_mode)

----------------------------------------------------------------------------
(* The modal layer as documented: the mode step of startup and quiesce,    *)
(* followed by the delegation to the machine of the resulting pair.        *)

\* The state after the documented mode step (unchanged when the state is
\* stable or the provider denies the transition).
StepState(p, state) ==
    IF state.current_mode = state.target_mode
       \/ ~can_transition_to_target_mode(p, state).allowed
    THEN state
    ELSE LET next == can_transition_to_target_mode(p, state).next_target_mode
         IN  ModalState(state.state, state.target_mode,
                        IF next # NoMode THEN next ELSE state.target_mode)

\* The ModeOutput of the documented mode step, if any.
StepOutputs(p, state) ==
    IF StepState(p, state) = state
    THEN <<>>
    ELSE <<ModeOutput(StepState(p, state).current_mode,
                      StepState(p, state).target_mode)>>

WrapOutputs(outputs) == [i \in 1 .. Len(outputs) |-> Output(outputs[i])]

\* What the machine of (current_mode, target_mode) of `state` returns for
\* the startup or quiesce call c.
Underlying(p, state, c) ==
    WrappedResult(mode_machine(p, state.current_mode, state.target_mode),
                  [c EXCEPT !.state = state.state])

\* C11: startup and quiesce always delegate to the machine of the (possibly
\* just-updated) pair, on the underlying state, whether or not a mode step
\* occurred: when that machine yields a transition, the result is a
\* transition whose outputs are the mode step's ModeOutput (if any)
\* followed by the underlying outputs wrapped as Output.  Stated for the
\* providers that register a machine for every pair of modes.
C11_StartupQuiesceAlwaysDelegate ==
    (/\ last.op \in {"startup", "quiesce"}
     /\ last.state.kind = "ModalState"
     /\ _mode_machines.registered = AllPairs)
    => LET after == StepState(_mode_machines, last.state)
           t == Underlying(_mode_machines, after, last)
       IN  t.some =>
               /\ last.result.some
               /\ last.result.outputs =
                      StepOutputs(_mode_machines, last.state)
                          \o WrapOutputs(t.outputs)

\* The provider of the guarded-stop scenario: modes RUNNING = 1 and
\* STOPPED = 2, underlying states PICKING = 1 and IDLE = 2; a machine for
\* every pair; a mode transition is denied while PICKING and allowed,
\* without redirection, while IDLE.
GuardedStopProvider(p) ==
    /\ p.registered = AllPairs
    /\ 1 \in p.deny
    /\ 2 \notin p.deny
    /\ p.redirect = 0

\* C12: in the guarded-stop scenario, from (IDLE, RUNNING, RUNNING) a
\* ModeInput(STOPPED) sets target_mode to STOPPED and emits one
\* ModeOutput(RUNNING, STOPPED); a driver call that leaves the underlying
\* state PICKING leaves current_mode RUNNING; and quiesce on
\* (IDLE, RUNNING, STOPPED) yields a state with current_mode = STOPPED.
C12_GuardedStopScenario ==
    LET RUNNING == 1
        STOPPED == 2
        PICKING == 1
        IDLE == 2
    IN  GuardedStopProvider(_mode_machines) =>
        /\ (/\ last.op = "input"
            /\ last.state = ModalState(IDLE, RUNNING, RUNNING)
            /\ last.input = ModeInput(STOPPED))
           => last.result =
                  ModalTransition(ModalState(IDLE, RUNNING, STOPPED),
                                  <<ModeOutput(RUNNING, STOPPED)>>)
        /\ (/\ last.op \in {"process_startup", "process_input"}
            /\ last.state.kind = "ModalState"
            /\ last.state.current_mode = RUNNING
            /\ last.state.target_mode = STOPPED
            /\ last.raised = "none"
            /\ st.kind = "ModalState"
            /\ st.state = PICKING)
           => st.current_mode = RUNNING
        /\ (/\ last.op = "quiesce"
            /\ last.state = ModalState(IDLE, RUNNING, STOPPED))
           => /\ last.result.some
              /\ last.result.state.kind = "ModalState"
              /\ last.result.state.current_mode = STOPPED

\* C13: with modes A = 1, B = 2, C = 3 and a provider that always allows and
\* redirects to C, after a ModeInput(C) from (A, A) one quiesce call moves
\* the state to (B, C) with one ModeOutput(B, C), a second one moves it to
\* (C, C) with one ModeOutput(C, C), and quiesce on a stable state produces
\* no ModeOutput.
C13_SingleHopConvergence ==
    LET A == 1
        B == 2
        C == 3
    IN  (/\ last.op = "quiesce"
         /\ last.state.kind = "ModalState"
         /\ _mode_machines.registered = AllPairs
         /\ _mode_machines.deny = {}
         /\ _mode_machines.redirect = 2)
        => /\ (last.state.current_mode = A /\ last.state.target_mode = C)
              => /\ last.result.some
                 /\ last.result.state =
                        ModalState(last.state.state, B, C)
                 /\ ModeOutputsOf(last.result.outputs) =
                        <<ModeOutput(B, C)>>
           /\ (last.state.current_mode = B /\ last.state.target_mode = C)
              => /\ last.result.some
                 /\ last.result.state =
                        ModalState(last.state.state, C, C)
                 /\ ModeOutputsOf(last.result.outputs) =
                        <<ModeOutput(C, C)>>
           /\ (last.state.current_mode = last.state.target_mode)
              => ModeOutputsOf(last.result.outputs) = <<>>

\* C14: input with a ModeInput(m) for which no mode machine is registered
\* for (current_mode, m) returns no transition and does not raise; a
\* ModeInput(m) for which one is registered, with m different from
\* target_mode, is not rejected.
C14_InvalidModeRequestRejected ==
    (/\ last.op = "input"
     /\ last.input.tag = "ModeInput"
     /\ last.state.kind = "ModalState")
    => IF ~HasModeMachine(_mode_machines, last.state.current_mode,
                          last.input.target_mode)
       THEN last.result = NoModalTransition
       ELSE last.input.target_mode # last.state.target_mode
                => last.result.some

\* The number of ModeOutput(c, t) entries in a sequence of modal outputs.
CountModeOutput(outputs, c, t) ==
    Len(SelectSeq(outputs, LAMBDA o : o = ModeOutput(c, t)))

----------------------------------------------------------------------------
(* StateMachine._concatenate as a pure function of its arguments *)

\* The output sequences a transition of the given tag may carry: up to two
\* outputs, distinct from those of every other tag.
OutputsOf(tag) == {<<>>, <<Tag(tag, 1)>>, <<Tag(tag, 1), Tag(tag, 2)>>}

\* The values an argument of _concatenate may take: None, or a
\* StateTransition whose state is None, the falsy state 0 or a truthy state.
TransitionsOf(tag) ==
    {NoTransition} \cup
    {StateTransition(s, o) : s \in States \cup {NoState}, o \in OutputsOf(tag)}

InitConcatenate ==
    /\ machine = NoState
    /\ st = NoState
    /\ pc = "args"
    /\ last = NoCall
    /\ _machines = <<>>
    /\ _until = {}
    /\ _initial_input = NoState
    /\ _initialized = FALSE
    /\ fed = 0
    /\ ncalls = 0
    /\ _ignore_input = {}
    /\ attrs = {}
    /\ _mode_machines = NoState
    /\ args \in TransitionsOf(1) \X TransitionsOf(2) \X TransitionsOf(3)

\* _concatenate(A, B)
Concatenate ==
    /\ pc = "args"
    /\ last' = Call("_concatenate", NoState, NoState,
                    _concatenate(args[1], args[2]))
    /\ pc' = "pair"
    /\ UNCHANGED <<machine, st, args>>
    /\ UNCHANGED wrapVars

\* _concatenate(_concatenate(A, B), C)
ConcatenateLeft ==
    /\ pc = "pair"
    /\ last' = Call("left", NoState, NoState,
                    _concatenate(_concatenate(args[1], args[2]), args[3]))
    /\ pc' = "left"
    /\ UNCHANGED <<machine, st, args>>
    /\ UNCHANGED wrapVars

\* _concatenate(A, _concatenate(B, C))
ConcatenateRight ==
    /\ pc = "pair"
    /\ last' = Call("right", NoState, NoState,
                    _concatenate(args[1], _concatenate(args[2], args[3])))
    /\ pc' = "right"
    /\ UNCHANGED <<machine, st, args>>
    /\ UNCHANGED wrapVars

NextConcatenate == Concatenate \/ ConcatenateLeft \/ ConcatenateRight

SpecConcatenate == InitConcatenate /\ [][NextConcatenate]_vars

\* C16: _concatenate(t1, t2) of two present transitions has t2's state if
\* present, else t1's state, and t1's outputs followed by t2's;
\* _concatenate(None, t) and _concatenate(t, None) are t, and
\* _concatenate(None, None) is None.
C16_ConcatenationRule ==
    last.op = "_concatenate" =>
        LET t1 == args[1]
            t2 == args[2]
        IN  /\ (t1.some /\ t2.some) =>
                   /\ last.result.some
                   /\ last.result.state =
                          (IF t2.state # NoState THEN t2.state ELSE t1.state)
                   /\ last.result.outputs = t1.outputs \o t2.outputs
            /\ (~t1.some) => last.result = t2
            /\ (~t2.some) => last.result = t1

\* The last state among the transitions that is not absent, None if there is
\* none.
RECURSIVE LastState(_)
LastState(ts) ==
    IF ts = <<>> THEN NoState
    ELSE LET t == ts[Len(ts)] IN
         IF t.some /\ t.state # NoState THEN t.state
         ELSE LastState(SubSeq(ts, 1, Len(ts) - 1))

\* The outputs of the present transitions, in order.
RECURSIVE AllOutputs(_)
AllOutputs(ts) ==
    IF ts = <<>> THEN <<>>
    ELSE (IF Head(ts).some THEN Head(ts).outputs ELSE <<>>)
         \o AllOutputs(Tail(ts))

\* C17: both groupings of the concatenation of A, B and C have the same
\* state, the last non-absent state among A, B and C, and the same outputs,
\* those of A, then of B, then of C.
C17_ConcatenationAssociative ==
    /\ last.op \in {"left", "right"} =>
           /\ last.result =
                  _concatenate(_concatenate(args[1], args[2]), args[3])
           /\ last.result =
                  _concatenate(args[1], _concatenate(args[2], args[3]))
    /\ (last.op \in {"left", "right"} /\ last.result.some) =>
           /\ last.result.state = LastState(args)
           /\ last.result.outputs = AllOutputs(args)


\* C18: the first call to startup, input or quiesce of an InitialInputMachine
\* with state s returns the concatenation of the wrapped machine's
\* process_input(s, initial input) and of the wrapped machine's own result
\* for the call: the initial input's outputs come first, and the state is the
\* delegated transition's state if present, else the initial input's.
C18_FirstCallConcatenation ==
    (ncalls = 1 /\ last.op \in {"startup", "input", "quiesce"}) =>
        last.result = Merge(process_input(machine, last.state, _initial_input),
                            WrappedResult(machine, last))


\* The call `last` emitted no ModeOutput and returned no state whose
\* current_mode or target_mode differs from those of the state it was given.
ModesKept(c) ==
    /\ c.raised = "none"
    /\ ModeOutputsOf(c.result.outputs) = <<>>
    /\ (c.result.some /\ c.result.state.kind = "ModalState") =>
           /\ c.result.state.current_mode = c.state.current_mode
           /\ c.result.state.target_mode = c.state.target_mode

\* The modal state is stable, or its provider denies the mode transition.
StableOrDenied(p, state) ==
    \/ state.current_mode = state.target_mode
    \/ ~can_transition_to_target_mode(p, state).allowed

ModePair(state) ==
    IF state.kind = "ModalState"
    THEN <<state.current_mode, state.target_mode>>
    ELSE <<NoMode, NoMode>>

\* C20: in a driver run of a ModalMachine (process_startup, then
\* process_input with Input and ModeInput inputs) a call emits a ModeOutput
\* if and only if the pair of modes of the state stored after the call
\* differs from the pair stored before it, and the last ModeOutput it emits
\* carries the pair of the state stored after the call.
C20_ModeOutputsMatchStoredState ==
    (\/ last.op = "process_startup"
     \/ /\ last.op = "process_input"
        /\ last.input.tag \in {"Input", "ModeInput"}) =>
        LET changes == ModeOutputsOf(last.result.outputs) IN
        /\ (changes # <<>>) <=> (ModePair(st) # ModePair(last.state))
        /\ (changes # <<>>) =>
               LET o == changes[Len(changes)] IN
               <<o.current_mode, o.target_mode>> = ModePair(st)

----------------------------------------------------------------------------
(* Transitions to a state that is present but falsy *)

\* The transition carries a state that is present but falsy.
Falsy(t) == t.some /\ t.state = 0

\* The transition carries no state a quiescing step would start from: it is
\* None, has no state, or has a falsy state.
Stateless(t) == ~t.some \/ t.state = NoState \/ t.state = 0

\* The quiesce transitions of a cascade that starts in `state` and that a
\* stateless transition ends: at most two, as _process_quiesce makes at most
\* two calls.
Cascade(m, state) ==
    LET q1 == m.quiesce[state] IN
    IF ~q1.some THEN <<>>
    ELSE IF Stateless(q1) THEN <<q1>>
    ELSE LET q2 == m.quiesce[q1.state] IN
         IF q2.some THEN <<q1, q2>> ELSE <<q1>>

\* The transitions of the driver call c, in order, if its first transition
\* is handled as one without a state whenever it is stateless: quiescing
\* then starts from the state of the call (process_startup) or does not
\* happen (process_input).
Steps(m, c) ==
    LET t == IF c.op = "process_startup"
             THEN m.startup[c.state]
             ELSE m.input[<<c.state, c.input>>]
        first == IF t.some THEN <<t>> ELSE <<>>
    IN  IF ~Stateless(t) THEN first \o Cascade(m, t.state)
        ELSE IF c.op = "process_startup" THEN first \o Cascade(m, c.state)
        ELSE first

\* Some transition of the sequence carries a truthy state.
HasTruthy(ts) == \E i \in DOMAIN ts : Truthy(ts[i].state)

\* The last truthy state of the sequence.
LastTruthy(ts) ==
    LET i == CHOOSE j \in DOMAIN ts :
                 /\ Truthy(ts[j].state)
                 /\ \A k \in DOMAIN ts : k > j => ~Truthy(ts[k].state)
    IN  ts[i].state

\* What process_startup, process_input, _process_quiesce and _concatenate
\* make of the transitions of a call when a falsy state is handled like no
\* state: the outputs in order, None if there was no transition.
HandledAsStateless(c) ==
    LET steps == Steps(machine, c) IN
    /\ last.result.some <=> steps # <<>>
    /\ last.result.outputs = AllOutputs(steps)
    /\ HasTruthy(steps) => last.result.state = LastTruthy(steps)

\* C21 as stated: a transition whose state is present but falsy is handled
\* by process_startup, process_input, _process_quiesce and _concatenate like
\* a transition with no state (no quiescing follows it, it ends the
\* cascade, an earlier state is kept in a merge), and so a call in which a
\* transition to the falsy state is merged with another transition never
\* returns that state nor drives the machine into it.
C21_FalsyStateNeverSurvivesMerge ==
    last.op \in {"process_startup", "process_input"} =>
        /\ HandledAsStateless(last)
        /\ Len(Steps(machine, last)) >= 2 =>
               /\ last.result.state # 0
               /\ last.state # 0 => st # 0

\* C21 as amended: the same handling, and the falsy state is the state of
\* the result exactly when it is the state of the first transition of the
\* call and no later transition of the call carries a truthy state; the
\* driver then stores it.
C21_FalsyStateHandledAsStateless ==
    last.op \in {"process_startup", "process_input"} =>
        LET steps == Steps(machine, last) IN
        /\ HandledAsStateless(last)
        /\ last.result.state = 0 <=>
               (steps # <<>> /\ steps[1].state = 0 /\ ~HasTruthy(steps))
        /\ last.result.state = 0 => st = 0

\* C21 witness: a startup transition to the falsy state was merged with the
\* quiesce transition of the state the call started from, as one without a
\* state would be, and its falsy state became the driver's state.
C21_Witness ==
    /\ last.op = "process_startup"
    /\ last.state # 0
    /\ Falsy(machine.startup[last.state])
    /\ machine.quiesce[last.state].some
    /\ Len(Steps(machine, last)) = 2
    /\ last.result.outputs = machine.startup[last.state].outputs
                                 \o machine.quiesce[last.state].outputs
    /\ st = 0

====
